---- MODULE Spec2Model ----
(***************************************************************************)
(* A model of pnelson/jwt: signing and parsing of compact JSON Web Tokens. *)
(*                                                                         *)
(* The repository holds three iterations of the package:                   *)
(*   - package notary (notary.go, signer.go): a process-wide registry of   *)
(*     Signers, looked up by the header's alg;                             *)
(*   - package jwt (Token.Sign(s, key), Parse(s, jwt, key),                *)
(*     ParseWithKeyFunc) with HMAC, RSA and ECDSA Signers;                 *)
(*   - the latest package jwt (New(signer), Token.Sign(key), ErrSigner),   *)
(*     of which only the tests are at hand.                                *)
(*                                                                         *)
(* Byte strings are modelled by what they carry: a JSON text, a signature  *)
(* or other bytes. Cryptographic primitives are ideal: two digests or      *)
(* signatures are equal exactly when they were made from the same inputs.  *)
(***************************************************************************)
EXTENDS Integers, Sequences, FiniteSets, TLC

(***************************************************************************)
(* Bounds of the model.                                                    *)
(***************************************************************************)
\* time.Now().Unix() is drawn from 0..MaxNow
MaxNow == 2
\* ecdsa.Sign draws its nonce from 1..MaxNonce
MaxNonce == 2

(***************************************************************************)
(* Errors. nil is the absent error; Panic is a run-time panic.             *)
(***************************************************************************)
nil == "nil"
Panic == "panic"
ErrMalformed == "ErrMalformed"
ErrHeaderTyp == "ErrHeaderTyp"
ErrHeaderAlg == "ErrHeaderAlg"
ErrSignerAlg == "ErrSignerAlg"
ErrClaimExpired == "ErrClaimExpired"
ErrClaimNotBefore == "ErrClaimNotBefore"
ErrHashUnavailable == "ErrHashUnavailable"
ErrInvalidSignature == "ErrInvalidSignature"
ErrSigner == "ErrSigner"
\* errors of the standard library, named by their type
CorruptInputError == "base64.CorruptInputError"
SyntaxError == "json.SyntaxError"
UnmarshalTypeError == "json.UnmarshalTypeError"
UnsupportedTypeError == "json.UnsupportedTypeError"
ErrInvalidRSAPrivateKey == "jwt: invalid rsa private key"
ErrInvalidRSAPublicKey == "jwt: invalid rsa public key"
ErrInvalidECDSAPrivateKey == "jwt: invalid ecdsa private key"
ErrInvalidECDSAPublicKey == "jwt: invalid ecdsa public key"
X509ParseError == "x509: parse error"
ErrKeyFn == "keyFn: no such key"

(***************************************************************************)
(* Go values held in a map[string]interface{}. A float64 is kept in        *)
(* halves (n = 2 * value), so that 1.5 and -0.5 exist; an int64 is kept as *)
(* it is.                                                                  *)
(***************************************************************************)
GoString(s) == [t |-> "string", s |-> s, n |-> 0]
GoInt(n) == [t |-> "int64", s |-> "", n |-> n]
GoFloat(h) == [t |-> "float64", s |-> "", n |-> h]
GoChan == [t |-> "chan", s |-> "", n |-> 0]

\* a map[string]interface{}: the nil map, or a function from its keys
NilMap == [isnil |-> TRUE, m |-> <<>>]
GoMap(f) == [isnil |-> FALSE, m |-> f]
EmptyMap == GoMap(<<>>)
\* m[k].(T): the value and whether the key is there with that type
HasType(m, k, t) == k \in DOMAIN m.m /\ m.m[k].t = t
\* an assignment that keeps the value a key already has
MapSetIfAbsent(m, k, v) ==
    IF k \in DOMAIN m.m THEN m
    ELSE GoMap([x \in DOMAIN m.m \cup {k} |-> IF x = k THEN v ELSE m.m[x]])

\* m[k] = v on a non-nil map
MapSet(m, k, v) == GoMap([x \in DOMAIN m.m \cup {k} |-> IF x = k THEN v ELSE m.m[x]])

(***************************************************************************)
(* Byte strings. A JSON text is an object (its members), null or another   *)
(* JSON value; a JSON number is kept in halves, like a float64.            *)
(***************************************************************************)
JNumber(h) == [j |-> "number", s |-> "", n |-> h]
JString(s) == [j |-> "string", s |-> s, n |-> 0]
JSONObject(f) == [kind |-> "json", form |-> "object", obj |-> f]
JSONNull == [kind |-> "json", form |-> "null", obj |-> <<>>]
JSONArray == [kind |-> "json", form |-> "array", obj |-> <<>>]
\* bytes that are no JSON text and no signature: id 0 is the empty string
Raw(id, len) == [kind |-> "raw", id |-> id, len |-> len]
NoBytes == Raw(0, 0)

(***************************************************************************)
(* encoding/json. Marshal writes an int64 and a float64 as a JSON number;  *)
(* Unmarshal into an interface{} reads every JSON number as a float64.     *)
(***************************************************************************)
MarshalValue(v) == IF v.t = "string" THEN JString(v.s)
                   ELSE IF v.t = "int64" THEN JNumber(2 * v.n)
                   ELSE JNumber(v.n)

\* json.Marshal(m) of a map[string]interface{}: [b, err]
Marshal(m) ==
    IF m.isnil THEN [b |-> JSONNull, err |-> nil]
    ELSE IF \E k \in DOMAIN m.m : m.m[k].t = "chan"
    THEN [b |-> NoBytes, err |-> UnsupportedTypeError]
    ELSE [b |-> JSONObject([k \in DOMAIN m.m |-> MarshalValue(m.m[k])]), err |-> nil]

\* a decoder that reads a JSON number as an integer, dropping its fraction
UnmarshalValueInt(j) ==
    IF j.j = "string" THEN GoString(j.s)
    ELSE GoFloat(2 * (IF j.n >= 0 THEN j.n \div 2 ELSE -((-j.n) \div 2)))

UnmarshalValue(j) == IF j.j = "string" THEN GoString(j.s) ELSE GoFloat(j.n)

\* json.Unmarshal(b, &m) where m is the nil map of a fresh Token: [m, err]
Unmarshal(b) ==
    IF b.kind # "json" THEN [m |-> NilMap, err |-> SyntaxError]
    ELSE IF b.form = "null" THEN [m |-> NilMap, err |-> nil]
    ELSE IF b.form # "object" THEN [m |-> NilMap, err |-> UnmarshalTypeError]
    ELSE [m |-> GoMap([k \in DOMAIN b.obj |-> UnmarshalValue(b.obj[k])]), err |-> nil]

(***************************************************************************)
(* Strings on the wire. A string is a sequence of runs: a dot, a maximal   *)
(* run of base64url characters (the bytes p it decodes to, and tail, the   *)
(* unused low bits of its last character), or a run holding a character    *)
(* outside the alphabet. No two text runs are adjacent.                    *)
(***************************************************************************)
Dot == [c |-> "dot"]
Text(p, tail) == [c |-> "text", p |-> p, tail |-> tail]
BadText == [c |-> "bad"]
sep == <<Dot>>

\* the number of unused bits in the last character of the encoding of n bytes
TailBits(n) == IF n % 3 = 1 THEN 4 ELSE IF n % 3 = 2 THEN 2 ELSE 0

\* encode returns the padding-free URL-safe base64 encoding: the unused bits are 0
encode(b) == IF b = NoBytes THEN <<>> ELSE <<Text(b, 0)>>

\* decode (base64.RawURLEncoding.DecodeString): [b, err]. The decoder does not
\* look at the unused bits of the last character.
decode(s) ==
    IF s = <<>> THEN [b |-> NoBytes, err |-> nil]
    ELSE IF Len(s) = 1 /\ s[1].c = "text" THEN [b |-> s[1].p, err |-> nil]
    ELSE [b |-> NoBytes, err |-> CorruptInputError]

\* strings.Split(s, sep)
RECURSIVE Split(_)
Split(s) ==
    IF \A i \in 1..Len(s) : s[i] # Dot THEN <<s>>
    ELSE LET i == CHOOSE k \in 1..Len(s) :
                      s[k] = Dot /\ \A l \in 1..(k - 1) : s[l] # Dot
         IN <<SubSeq(s, 1, i - 1)>> \o Split(SubSeq(s, i + 1, Len(s)))

\* strings.Join(parts[:2], sep)
Join2(parts) == parts[1] \o sep \o parts[2]

\* compare (subtle.ConstantTimeCompare): equality of two byte strings
compare(x, y) == x = y

(***************************************************************************)
(* Keys. A key is a byte string: raw bytes, or a PEM block of type blk     *)
(* holding a DER structure of family fam ("junk": no DER structure). id    *)
(* names the secret or the key pair; bits is the RSA modulus size or the   *)
(* curve's BitSize.                                                        *)
(***************************************************************************)
RawKey(id) == [blk |-> "", fam |-> "raw", id |-> id, bits |-> 0]
PEMKey(blk, fam, id, bits) == [blk |-> blk, fam |-> fam, id |-> id, bits |-> bits]
\* the key pair a PEM-encoded private or public key belongs to
Pair(key) == [key EXCEPT !.blk = "pair"]

(***************************************************************************)
(* Signatures and digests: ideal primitives. flip = 0 is the value the     *)
(* primitive returned; flip = i > 0 is that value with bit i inverted.     *)
(***************************************************************************)
Signature(fam, h, key, msg, len, nonce) ==
    [kind |-> "sig", fam |-> fam, hash |-> h, key |-> key, msg |-> msg,
     len |-> len, nonce |-> nonce, flip |-> 0]

\* len(b) of a byte string used as a signature; the length of a JSON text is
\* not modelled and is no signature width
BytesLen(b) == IF b.kind = "json" THEN -1 ELSE b.len

\* crypto.Hash: Size and Available (the hashes linked into the binary)
HashSize(h) == IF h = "SHA256" THEN 32 ELSE IF h = "SHA384" THEN 48
               ELSE IF h = "SHA512" THEN 64 ELSE 16
Available(h) == h \in {"SHA256", "SHA384", "SHA512"}

(***************************************************************************)
(* Signer implementations of package jwt.                                  *)
(***************************************************************************)
NewHMACSigner(name, h) == [family |-> "HMAC", name |-> name, hash |-> h]
NewRSASigner(name, h) == [family |-> "RSA", name |-> name, hash |-> h]
NewECDSASigner(name, h) == [family |-> "ECDSA", name |-> name, hash |-> h]
\* the nil Signer interface value
NilSigner == [family |-> "nil", name |-> "", hash |-> ""]

HS256 == NewHMACSigner("HS256", "SHA256")
HS384 == NewHMACSigner("HS384", "SHA384")
HS512 == NewHMACSigner("HS512", "SHA512")
RS256 == NewRSASigner("RS256", "SHA256")
RS384 == NewRSASigner("RS384", "SHA384")
RS512 == NewRSASigner("RS512", "SHA512")
ES256 == NewECDSASigner("ES256", "SHA256")
ES384 == NewECDSASigner("ES384", "SHA384")
ES512 == NewECDSASigner("ES256", "SHA512")

\* the exported Signers, by identifier
Exported == [HS256 |-> HS256, HS384 |-> HS384, HS512 |-> HS512,
             RS256 |-> RS256, RS384 |-> RS384, RS512 |-> RS512,
             ES256 |-> ES256, ES384 |-> ES384, ES512 |-> ES512]

\* HMACSigner.digest: [b, err]
HMACdigest(s, b, key) ==
    IF ~Available(s.hash) THEN [b |-> NoBytes, err |-> ErrHashUnavailable]
    ELSE [b |-> Signature("HMAC", s.hash, key, b, HashSize(s.hash), 0), err |-> nil]

HMACSign(s, b, key) == HMACdigest(s, b, key)

\* HMACSigner.Verify: the error
HMACVerify(s, b, sig, key) ==
    LET d == HMACdigest(s, b, key)
    IN IF d.err # nil THEN d.err
       ELSE IF ~compare(sig, d.b) THEN ErrInvalidSignature
       ELSE nil

\* hash(h, b): the digest of b, or ErrHashUnavailable
hash(h, b) == IF ~Available(h) THEN [sum |-> <<>>, err |-> ErrHashUnavailable]
              ELSE [sum |-> <<h, b>>, err |-> nil]

\* RSASigner.decodePrivateKey: [key, err]
RSAdecodePrivateKey(b) ==
    IF b.blk # "RSA PRIVATE KEY" THEN [key |-> b, err |-> ErrInvalidRSAPrivateKey]
    ELSE IF b.fam # "rsa" THEN [key |-> b, err |-> X509ParseError]
    ELSE [key |-> b, err |-> nil]

\* RSASigner.decodePublicKey: [key, err]
RSAdecodePublicKey(b) ==
    IF b.blk # "PUBLIC KEY" THEN [key |-> b, err |-> ErrInvalidRSAPublicKey]
    ELSE IF b.fam \notin {"rsa", "ec"} THEN [key |-> b, err |-> X509ParseError]
    ELSE IF b.fam # "rsa" THEN [key |-> b, err |-> ErrInvalidRSAPublicKey]
    ELSE [key |-> b, err |-> nil]

\* RSASigner.Sign: [b, err]; rsa.SignPKCS1v15 is deterministic
RSASign(e, b, key) ==
    LET priv == RSAdecodePrivateKey(key)
        sum == hash(e.hash, b)
    IN IF priv.err # nil THEN [b |-> NoBytes, err |-> priv.err]
       ELSE IF sum.err # nil THEN [b |-> NoBytes, err |-> sum.err]
       ELSE [b |-> Signature("RSA", e.hash, Pair(priv.key), b, priv.key.bits \div 8, 0),
             err |-> nil]

\* RSASigner.Verify: the error
RSAVerify(e, b, sig, key) ==
    LET pub == RSAdecodePublicKey(key)
        sum == hash(e.hash, b)
    IN IF pub.err # nil THEN pub.err
       ELSE IF sum.err # nil THEN sum.err
       ELSE IF sig # Signature("RSA", e.hash, Pair(pub.key), b, pub.key.bits \div 8, 0)
       THEN ErrInvalidSignature
       ELSE nil

\* ECDSASigner.getKeySize: the size of the r/s key with padding
getKeySize(bitSize) ==
    LET n == bitSize \div 8
    IN IF n % 8 > 0 THEN n + 1 ELSE n

\* ECDSASigner.decodePrivateKey: [key, err]
ECDSAdecodePrivateKey(b) ==
    IF b.blk # "EC PRIVATE KEY" THEN [key |-> b, err |-> ErrInvalidECDSAPrivateKey]
    ELSE IF b.fam # "ec" THEN [key |-> b, err |-> X509ParseError]
    ELSE [key |-> b, err |-> nil]

\* ECDSASigner.decodePublicKey: [key, err]
ECDSAdecodePublicKey(b) ==
    IF b.blk # "PUBLIC KEY" THEN [key |-> b, err |-> ErrInvalidECDSAPublicKey]
    ELSE IF b.fam \notin {"rsa", "ec"} THEN [key |-> b, err |-> X509ParseError]
    ELSE IF b.fam # "ec" THEN [key |-> b, err |-> ErrInvalidECDSAPublicKey]
    ELSE [key |-> b, err |-> nil]

\* ECDSASigner.Sign with the nonce ecdsa.Sign draws from rand.Reader: [b, err]
ECDSASign(e, b, key, nonce) ==
    LET priv == ECDSAdecodePrivateKey(key)
        sum == hash(e.hash, b)
    IN IF priv.err # nil THEN [b |-> NoBytes, err |-> priv.err]
       ELSE IF sum.err # nil THEN [b |-> NoBytes, err |-> sum.err]
       ELSE [b |-> Signature("ECDSA", e.hash, Pair(priv.key), b,
                             2 * getKeySize(priv.key.bits), nonce),
             err |-> nil]

\* ecdsa.Verify(pub, hash, r, s): every signature ecdsa.Sign made verifies
ecdsaVerify(pub, h, b, sig) ==
    /\ sig.kind = "sig"
    /\ [sig EXCEPT !.nonce = 0] =
          Signature("ECDSA", h, Pair(pub), b, 2 * getKeySize(pub.bits), 0)

\* ECDSASigner.Verify: the error
ECDSAVerify(e, b, sig, key) ==
    LET pub == ECDSAdecodePublicKey(key)
        sum == hash(e.hash, b)
    IN IF pub.err # nil THEN pub.err
       ELSE IF BytesLen(sig) # 2 * getKeySize(pub.key.bits) THEN ErrInvalidSignature
       ELSE IF sum.err # nil THEN sum.err
       ELSE IF ~ecdsaVerify(pub.key, e.hash, b, sig) THEN ErrInvalidSignature
       ELSE nil

\* a Verify that accepts every signature
VerifyAnything(s, b, sig, key) == nil

\* a Sign whose HMAC draws on the random source too
SignerSignSalted(s, b, key, nonce) ==
    IF s.family = "HMAC" /\ Available(s.hash)
    THEN [b |-> Signature("HMAC", s.hash, key, b, HashSize(s.hash), nonce), err |-> nil]
    ELSE IF s.family = "HMAC" THEN [b |-> NoBytes, err |-> ErrHashUnavailable]
    ELSE IF s.family = "RSA" THEN RSASign(s, b, key)
    ELSE IF s.family = "ECDSA" THEN ECDSASign(s, b, key, nonce)
    ELSE [b |-> NoBytes, err |-> Panic]

\* the Signer interface: String, Sign, Verify. A method of the nil interface
\* value panics.
String(s) == IF s.family = "nil" THEN Panic ELSE s.name

SignerSign(s, b, key, nonce) ==
    IF s.family = "HMAC" THEN HMACSign(s, b, key)
    ELSE IF s.family = "RSA" THEN RSASign(s, b, key)
    ELSE IF s.family = "ECDSA" THEN ECDSASign(s, b, key, nonce)
    ELSE [b |-> NoBytes, err |-> Panic]

SignerVerify(s, b, sig, key) ==
    IF s.family = "HMAC" THEN HMACVerify(s, b, sig, key)
    ELSE IF s.family = "RSA" THEN RSAVerify(s, b, sig, key)
    ELSE IF s.family = "ECDSA" THEN ECDSAVerify(s, b, sig, key)
    ELSE Panic

(***************************************************************************)
(* Package jwt: Token, Token.Sign, Parse, ParseWithKeyFunc.                *)
(***************************************************************************)
\* *Token: the nil pointer, or a Token with its Header and Claims
NilToken == [ptr |-> "nil", Header |-> NilMap, Claims |-> NilMap]
Token(h, c) == [ptr |-> "token", Header |-> h, Claims |-> c]

\* the steps of Token.Sign and of ParseWithKeyFunc, in the order of the code
SignSteps == <<"setHeader", "marshalHeader", "marshalClaims", "encode", "sign",
               "encodeSig">>
ParseSteps == <<"split", "decodeHeader", "unmarshalHeader", "typ", "alg", "keyFn",
                "decodeSig", "verify", "decodeClaims", "unmarshalClaims", "exp",
                "nbf">>
StepsTo(all, name) ==
    SubSeq(all, 1, CHOOSE i \in 1..Len(all) : all[i] = name)

\* what Token.Sign returns and leaves: the string, the error, the Token after
\* the call and the steps that ran
SignResult(jwt, err, t, last) ==
    [jwt |-> jwt, err |-> err, t |-> t, steps |-> StepsTo(SignSteps, last)]

\* Token.Sign(s, key); nonce is what ecdsa.Sign draws
Sign(t, s, key, nonce) ==
    LET h0 == IF t.Header.isnil THEN EmptyMap ELSE t.Header
        h1 == MapSet(h0, "typ", GoString("JWT"))
        h2 == MapSet(h1, "alg", GoString(String(s)))
        h == Marshal(h2)
        c0 == IF t.Claims.isnil THEN EmptyMap ELSE t.Claims
        c == Marshal(c0)
        jwt == encode(h.b) \o sep \o encode(c.b)
        sig == SignerSign(s, jwt, key, nonce)
    IN IF String(s) = Panic
       THEN SignResult(<<>>, Panic, Token(h1, t.Claims), "setHeader")
       ELSE IF h.err # nil
       THEN SignResult(<<>>, h.err, Token(h2, t.Claims), "marshalHeader")
       ELSE IF c.err # nil
       THEN SignResult(<<>>, c.err, Token(h2, c0), "marshalClaims")
       ELSE IF sig.err # nil
       THEN SignResult(<<>>, sig.err, Token(h2, c0), "sign")
       ELSE SignResult(jwt \o sep \o encode(sig.b), nil, Token(h2, c0), "encodeSig")

\* a key callback func(*Token) ([]byte, error): one that returns its key, one
\* that fails, one that returns its key for the header's kid only
NoKey == RawKey(0)
ConstKeyFn(key) == [kind |-> "const", key |-> key, kid |-> ""]
FailKeyFn == [kind |-> "fail", key |-> NoKey, kid |-> ""]
KidKeyFn(kid, key) == [kind |-> "kid", key |-> key, kid |-> kid]
CallKeyFn(fn, t) ==
    IF fn.kind = "const" THEN [key |-> fn.key, err |-> nil]
    ELSE IF fn.kind = "kid" /\ HasType(t.Header, "kid", "string")
            /\ t.Header.m["kid"].s = fn.kid
    THEN [key |-> fn.key, err |-> nil]
    ELSE [key |-> NoKey, err |-> ErrKeyFn]

\* int64(f) of a float64 kept in halves: truncation toward zero
Int64(h) == IF h >= 0 THEN h \div 2 ELSE -((-h) \div 2)

\* an exp check that fails at the second of expiry, an nbf check that fails
\* at the second of validity
ExpiredAtExp(claims, now) ==
    HasType(claims, "exp", "float64") /\ now >= Int64(claims.m["exp"].n)
NotYetAtNbf(claims, now) ==
    HasType(claims, "nbf", "float64") /\ now <= Int64(claims.m["nbf"].n)

\* the exp and nbf checks of ParseWithKeyFunc
Expired(claims, now) ==
    HasType(claims, "exp", "float64") /\ now > Int64(claims.m["exp"].n)
NotYet(claims, now) ==
    HasType(claims, "nbf", "float64") /\ now < Int64(claims.m["nbf"].n)

\* a Parse that returns the Token it has built so far together with the error
ParseResultPartial(t, err, last, seen, v) ==
    [t |-> IF err = nil THEN t ELSE seen, err |-> err,
     steps |-> StepsTo(ParseSteps, last), seen |-> seen, verifier |-> v]

\* what a Parse returns: the Token, the error, the steps that ran, the Token
\* the key callback was given (NilToken when it was not called) and the Signer
\* whose Verify was called (NilSigner when none was)
ParseResult(t, err, last, seen, v) ==
    [t |-> t, err |-> err, steps |-> StepsTo(ParseSteps, last), seen |-> seen,
     verifier |-> v]

\* a Parse that takes the Signer the header's alg names
VerifierByAlg(s, header) ==
    IF HasType(header, "alg", "string") /\ header.m["alg"].s \in DOMAIN Exported
    THEN Exported[header.m["alg"].s]
    ELSE s

\* the Signer whose Verify ParseWithKeyFunc calls: the one the caller passed
Verifier(s, header) == s

\* a typ check that passes every header
TypAny(header) == TRUE

\* the typ and alg checks of the header
TypOK(header) == HasType(header, "typ", "string") /\ header.m["typ"].s = "JWT"
AlgOK(header, s) == HasType(header, "alg", "string") /\ header.m["alg"].s = String(s)

\* ParseWithKeyFunc(s, jwt, keyFn), with now the value of time.Now().Unix()
ParseWithKeyFunc(s, jwt, keyFn, now) ==
    LET parts == Split(jwt)
        h == decode(parts[1])
        header == Unmarshal(h.b)
        t0 == Token(header.m, NilMap)
        key == CallKeyFn(keyFn, t0)
        b == Join2(parts)
        sig == decode(parts[3])
        verr == SignerVerify(Verifier(s, header.m), b, sig.b, key.key)
        c == decode(parts[2])
        claims == Unmarshal(c.b)
        t == Token(header.m, claims.m)
    IN IF Len(parts) # 3 THEN ParseResult(NilToken, ErrMalformed, "split", NilToken, NilSigner)
       ELSE IF h.err # nil THEN ParseResult(NilToken, h.err, "decodeHeader", NilToken, NilSigner)
       ELSE IF header.err # nil
       THEN ParseResult(NilToken, header.err, "unmarshalHeader", NilToken, NilSigner)
       ELSE IF ~TypOK(header.m) THEN ParseResult(NilToken, ErrHeaderTyp, "typ", NilToken, NilSigner)
       ELSE IF ~AlgOK(header.m, s) THEN ParseResult(NilToken, ErrHeaderAlg, "alg", NilToken, NilSigner)
       ELSE IF key.err # nil THEN ParseResult(NilToken, key.err, "keyFn", t0, NilSigner)
       ELSE IF sig.err # nil THEN ParseResult(NilToken, sig.err, "decodeSig", t0, NilSigner)
       ELSE IF verr # nil THEN ParseResult(NilToken, verr, "verify", t0, Verifier(s, header.m))
       ELSE IF c.err # nil THEN ParseResult(NilToken, c.err, "decodeClaims", t0, Verifier(s, header.m))
       ELSE IF claims.err # nil
       THEN ParseResult(NilToken, claims.err, "unmarshalClaims", t0, Verifier(s, header.m))
       ELSE IF Expired(claims.m, now) THEN ParseResult(NilToken, ErrClaimExpired, "exp", t0, Verifier(s, header.m))
       ELSE IF NotYet(claims.m, now) THEN ParseResult(NilToken, ErrClaimNotBefore, "nbf", t0, Verifier(s, header.m))
       ELSE ParseResult(t, nil, "nbf", t0, Verifier(s, header.m))

\* Parse(s, jwt, key)
Parse(s, jwt, key, now) == ParseWithKeyFunc(s, jwt, ConstKeyFn(key), now)

(***************************************************************************)
(* Package notary: the registry of Signers, New, Token.Sign, Parse.        *)
(***************************************************************************)
\* HMACSigner(h): a Signer of package notary
HMACSigner(h) == [family |-> "HMACSigner", name |-> "", hash |-> h]

\* the registry after init()
InitSigners ==
    [alg \in {"HS256", "HS384", "HS512"} |->
        HMACSigner(IF alg = "HS256" THEN "SHA256"
                   ELSE IF alg = "HS384" THEN "SHA384" ELSE "SHA512")]

\* a Register that replaces the Signer a name has
RegisterOverwrite(reg, alg, signer) ==
    IF signer = NilSigner THEN [signers |-> reg, panic |-> TRUE]
    ELSE [signers |-> [a \in DOMAIN reg \cup {alg} |->
                          IF a = alg THEN signer ELSE reg[a]],
          panic |-> FALSE]

\* Register(alg, signer): the registry after the call and whether it panicked
Register(reg, alg, signer) ==
    IF signer = NilSigner THEN [signers |-> reg, panic |-> TRUE]
    ELSE IF alg \in DOMAIN reg THEN [signers |-> reg, panic |-> TRUE]
    ELSE [signers |-> [a \in DOMAIN reg \cup {alg} |->
                          IF a = alg THEN signer ELSE reg[a]],
          panic |-> FALSE]

\* HMACSigner.digest, Sign and Verify of package notary
NotaryDigest(s, b, key) ==
    [b |-> Signature("HMAC", s.hash, key, b, HashSize(s.hash), 0), err |-> nil]
NotarySignerSign(s, b, key) == NotaryDigest(s, b, key)
NotarySignerVerify(s, b, signature, key) ==
    LET d == NotaryDigest(s, b, key)
    IN IF d.err # nil THEN d.err
       ELSE IF ~(BytesLen(signature) = BytesLen(d.b) /\ compare(signature, d.b))
       THEN ErrInvalidSignature
       ELSE nil

\* a run of base64url characters followed by '=' padding
PaddedText(p) == [c |-> "padded", p |-> p, tail |-> 0]

\* decode of package notary: the padding the length asks for is added, then
\* base64.URLEncoding decodes
NotaryDecode(s) ==
    IF s = <<>> THEN [b |-> NoBytes, err |-> nil]
    ELSE IF Len(s) = 1 /\ s[1].c \in {"text", "padded"} THEN [b |-> s[1].p, err |-> nil]
    ELSE [b |-> NoBytes, err |-> CorruptInputError]

\* New(alg)
NotaryNew(alg) ==
    Token(GoMap([k \in {"typ", "alg"} |->
                    IF k = "typ" THEN GoString("JWT") ELSE GoString(alg)]),
          EmptyMap)

\* Token.Sign(key) of package notary
NotarySign(reg, t, key) ==
    LET h == Marshal(t.Header)
        c == Marshal(t.Claims)
        base == encode(h.b) \o sep \o encode(c.b)
        alg == t.Header.m["alg"].s
        sig == NotarySignerSign(reg[alg], base, key)
    IN IF h.err # nil THEN SignResult(<<>>, h.err, t, "marshalHeader")
       ELSE IF c.err # nil THEN SignResult(<<>>, c.err, t, "marshalClaims")
       ELSE IF ~HasType(t.Header, "alg", "string")
       THEN SignResult(<<>>, ErrHeaderAlg, t, "encode")
       ELSE IF alg \notin DOMAIN reg THEN SignResult(<<>>, ErrSignerAlg, t, "encode")
       ELSE IF sig.err # nil THEN SignResult(<<>>, sig.err, t, "sign")
       ELSE SignResult(base \o sep \o encode(sig.b), nil, t, "encodeSig")

\* Parse(message, callback) of package notary
NotaryParse(reg, message, callback, now) ==
    LET parts == Split(message)
        h == NotaryDecode(parts[1])
        header == Unmarshal(h.b)
        t0 == Token(header.m, NilMap)
        alg == header.m.m["alg"].s
        key == CallKeyFn(callback, t0)
        base == Join2(parts)
        sig == NotaryDecode(parts[3])
        verr == NotarySignerVerify(reg[alg], base, sig.b, key.key)
        c == NotaryDecode(parts[2])
        claims == Unmarshal(c.b)
        t == Token(header.m, claims.m)
    IN IF Len(parts) # 3 THEN ParseResult(NilToken, ErrMalformed, "split", NilToken, NilSigner)
       ELSE IF h.err # nil THEN ParseResult(NilToken, h.err, "decodeHeader", NilToken, NilSigner)
       ELSE IF header.err # nil
       THEN ParseResult(NilToken, header.err, "unmarshalHeader", NilToken, NilSigner)
       ELSE IF ~TypOK(header.m) THEN ParseResult(NilToken, ErrHeaderTyp, "typ", NilToken, NilSigner)
       ELSE IF ~HasType(header.m, "alg", "string")
       THEN ParseResult(NilToken, ErrHeaderAlg, "alg", NilToken, NilSigner)
       ELSE IF alg \notin DOMAIN reg
       THEN ParseResult(NilToken, ErrSignerAlg, "alg", NilToken, NilSigner)
       ELSE IF key.err # nil THEN ParseResult(NilToken, key.err, "keyFn", t0, NilSigner)
       ELSE IF sig.err # nil THEN ParseResult(NilToken, sig.err, "decodeSig", t0, NilSigner)
       ELSE IF verr # nil THEN ParseResult(NilToken, verr, "verify", t0, reg[alg])
       ELSE IF c.err # nil THEN ParseResult(NilToken, c.err, "decodeClaims", t0, reg[alg])
       ELSE IF claims.err # nil
       THEN ParseResult(NilToken, claims.err, "unmarshalClaims", t0, reg[alg])
       ELSE IF Expired(claims.m, now) THEN ParseResult(NilToken, ErrClaimExpired, "exp", t0, reg[alg])
       ELSE IF NotYet(claims.m, now) THEN ParseResult(NilToken, ErrClaimNotBefore, "nbf", t0, reg[alg])
       ELSE ParseResult(t, nil, "nbf", t0, reg[alg])

(***************************************************************************)
(* The latest package jwt: New(signer) and Token.Sign(key). A Token keeps  *)
(* the Signer it was made with; Sign fails with ErrSigner when there is    *)
(* none, before it encodes anything.                                       *)
(***************************************************************************)
\* a Sign that does not look at the Signer before it uses it
SignUnchecked(t, signer, key, nonce) == Sign(t, signer, key, nonce)

SignConfigured(t, signer, key, nonce) ==
    IF signer = NilSigner
    THEN [jwt |-> <<>>, err |-> ErrSigner, t |-> t, steps |-> <<>>]
    ELSE Sign(t, signer, key, nonce)

(***************************************************************************)
(* The inputs of the model: keys, Signers, claims, headers, key callbacks  *)
(* and what an attacker does to a signed string.                           *)
(***************************************************************************)
K1 == RawKey(1)
K2 == RawKey(2)
RSAPrivateKey == PEMKey("RSA PRIVATE KEY", "rsa", 1, 1024)
RSAPublicKey == PEMKey("PUBLIC KEY", "rsa", 1, 1024)
ECPrivateKey == PEMKey("EC PRIVATE KEY", "ec", 1, 256)
ECPublicKey == PEMKey("PUBLIC KEY", "ec", 1, 256)
JunkPublicKey == PEMKey("PUBLIC KEY", "junk", 1, 0)

SignKeys == {K1, RSAPrivateKey, ECPrivateKey, RSAPublicKey}
\* the keys a Signer is asked to sign with: an HMAC Signer takes any bytes as
\* its secret, and is given a secret and the bytes of a public key
SignKeysOf(s) == IF s.family = "HMAC" THEN {K1, RSAPublicKey} ELSE SignKeys
VerifyKeys == {K1, K2, RSAPublicKey, ECPublicKey, JunkPublicKey}
\* the key that verifies what key signed
VerifyKeyOf(key) == IF key.fam = "raw" THEN key ELSE [key EXCEPT !.blk = "PUBLIC KEY"]

\* a Signer over a hash that is not linked into the binary
HMD4 == NewHMACSigner("HMD4", "MD4")
ExportedSigners == {Exported[n] : n \in DOMAIN Exported}
Signers == ExportedSigners \cup {HMD4}

KeyFns == {ConstKeyFn(k) : k \in VerifyKeys} \cup {FailKeyFn, KidKeyFn("k1", K1)}

\* exp and nbf values: int64 seconds, a float64 with a fraction (1.5, -0.5)
\* and a value that is no number
TimeValues == {GoInt(n) : n \in 0..MaxNow} \cup {GoFloat(3), GoFloat(-1), GoString("never")}

One(k, v) == GoMap([x \in {k} |-> v])
Two(k, v, l, w) == GoMap([x \in {k, l} |-> IF x = k THEN v ELSE w])

ClaimMaps ==
    {NilMap, EmptyMap, One("foo", GoString("bar")), One("foo", GoChan)}
    \cup {One("exp", v) : v \in TimeValues}
    \cup {One("nbf", v) : v \in TimeValues}
    \cup {Two("exp", GoInt(e), "nbf", GoInt(n)) : e, n \in {0, MaxNow}}

HeaderMaps == {NilMap, EmptyMap, Two("kid", GoString("k1"), "alg", GoString("none")),
               Two("typ", GoString("JOSE"), "kid", GoString("k1"))}

\* the names and Signers Register is called with
RegisterNames == {"HS256", "none"}
RegisterSigners == {HMACSigner("SHA256"), HMACSigner("SHA512"), NilSigner}

\* what a caller of package notary writes into the header New made
HeaderWrites == {<<"typ", GoString("JOSE")>>, <<"alg", GoString("HS384")>>,
                 <<"kid", GoString("k1")>>}

\* the Token literals of the callers: every claim map under the nil header,
\* and the other headers with one claim map
TokenLiterals ==
    {Token(NilMap, c) : c \in ClaimMaps}
    \cup {Token(h, One("foo", GoString("bar"))) : h \in HeaderMaps}

\* the claim maps of the strings that are changed on their way
TamperClaims == {One("foo", GoString("bar")), One("exp", GoInt(0)),
                 One("nbf", GoInt(MaxNow))}

\* what becomes of the string between signing and parsing
TamperKinds == {"flip", "tail", "bad", "dot", "pad", "strip", "drop", "alg", "header"}

\* the string with its last segment replaced by the runs seg
WithSignature(jwt, seg) ==
    LET parts == Split(jwt) IN parts[1] \o sep \o parts[2] \o sep \o seg

\* the string with the alg of its header replaced by a
WithAlg(jwt, a) ==
    LET parts == Split(jwt)
        h == decode(parts[1]).b
        obj == [k \in DOMAIN h.obj \cup {"alg"} |->
                   IF k = "alg" THEN JString(a) ELSE h.obj[k]]
    IN encode(JSONObject(obj)) \o sep \o parts[2] \o sep \o parts[3]

\* a signed string after a change of kind kind
Tampered(jwt, kind) ==
    LET parts == Split(jwt)
        sig == decode(parts[3]).b
    IN IF kind = "flip" THEN WithSignature(jwt, encode([sig EXCEPT !.flip = 1]))
       ELSE IF kind = "tail" THEN WithSignature(jwt, <<Text(sig, 1)>>)
       ELSE IF kind = "bad" THEN WithSignature(jwt, <<BadText>>)
       ELSE IF kind = "dot"
       THEN WithSignature(jwt, <<Text(Raw(1, 1), 0), Dot, Text(Raw(2, sig.len - 2), 0)>>)
       ELSE IF kind = "pad" THEN WithSignature(jwt, <<PaddedText(sig)>>)
       ELSE IF kind = "strip" THEN WithSignature(jwt, <<>>)
       ELSE IF kind = "drop" THEN parts[1] \o sep \o parts[2]
       ELSE IF kind = "alg" THEN WithAlg(jwt, "HS256")
       ELSE <<BadText>> \o sep \o parts[2] \o sep \o parts[3]

\* whether a change of kind kind is a change of the signature sig
CanTamper(sig, kind) ==
    /\ kind = "tail" => TailBits(sig.len) > 0
    /\ kind = "pad" => TailBits(sig.len) > 0

(***************************************************************************)
(* The state: the package the program uses, its registry of Signers, the   *)
(* Token the caller holds, the string on the wire, and the last call of    *)
(* Sign and of Parse with what they returned.                              *)
(***************************************************************************)
VARIABLES pkg, signers, phase, tok, jwt, tampered, signed, parsed, op

vars == <<pkg, signers, phase, tok, jwt, tampered, signed, parsed, op>>

NoSign == [s |-> NilSigner, key |-> NoKey, claims |-> NilMap, header |-> NilMap,
           res |-> [jwt |-> <<>>, err |-> nil, t |-> NilToken, steps |-> <<>>]]
\* the last call of a function of the packages other than Sign and Parse
NoOp == [fn |-> "none"]
NoParse == [s |-> NilSigner, keyFn |-> FailKeyFn, now |-> 0,
            res |-> [t |-> NilToken, err |-> nil, steps |-> <<>>, seen |-> NilToken,
                     verifier |-> NilSigner]]

Init ==
    /\ pkg \in {"notary", "jwt", "jwt.New"}
    /\ signers = InitSigners
    /\ phase = "idle"
    /\ tok = NilToken
    /\ jwt = <<>>
    /\ tampered = "none"
    /\ signed = NoSign
    /\ parsed = NoParse
    /\ op = NoOp

\* t := &Token{Header: h, Claims: c}
NewToken(h, c) ==
    /\ pkg \in {"jwt", "jwt.New"}
    /\ phase = "idle"
    /\ tok' = Token(h, c)
    /\ phase' = "token"
    /\ UNCHANGED <<pkg, signers, jwt, tampered, signed, parsed, op>>

\* t := New(alg); t.Claims = c
NotaryNewToken(alg, c) ==
    /\ pkg = "notary"
    /\ phase = "idle"
    /\ tok' = [NotaryNew(alg) EXCEPT !.Claims = c]
    /\ phase' = "token"
    /\ UNCHANGED <<pkg, signers, jwt, tampered, signed, parsed, op>>

\* t.Header[k] = v on the Token New("HS256") made
NotarySetHeader(k, v) ==
    /\ pkg = "notary"
    /\ phase = "token"
    /\ tok = [NotaryNew("HS256") EXCEPT !.Claims = One("foo", GoString("bar"))]
    /\ tok' = [tok EXCEPT !.Header = MapSet(tok.Header, k, v)]
    /\ UNCHANGED <<pkg, signers, phase, jwt, tampered, signed, parsed, op>>

\* what a call of Sign leaves
Signed(s, key, r) ==
    /\ signed' = [s |-> s, key |-> key, claims |-> tok.Claims, header |-> tok.Header,
                  res |-> r]
    /\ tok' = r.t
    /\ jwt' = r.jwt
    /\ phase' = IF r.err = nil THEN "wire" ELSE "done"
    /\ UNCHANGED <<pkg, signers, tampered, parsed, op>>

\* t.Sign(s, key)
DoSign(s, key, nonce) ==
    /\ pkg = "jwt"
    /\ phase = "token"
    /\ Signed(s, key, Sign(tok, s, key, nonce))

\* t.Sign(key) on a Token made by New(s)
DoSignConfigured(s, key, nonce) ==
    /\ pkg = "jwt.New"
    /\ phase = "token"
    /\ Signed(s, key, SignConfigured(tok, s, key, nonce))

\* t.Sign(key) of package notary
DoNotarySign(key) ==
    /\ pkg = "notary"
    /\ phase = "token"
    /\ Signed(NilSigner, key, NotarySign(signers, tok, key))

\* the string is changed on its way
Tamper(kind) ==
    /\ phase = "wire"
    /\ tampered = "none"
    /\ signed.claims \in TamperClaims
    /\ CanTamper(decode(Split(jwt)[3]).b, kind)
    /\ jwt' = Tampered(jwt, kind)
    /\ tampered' = kind
    /\ UNCHANGED <<pkg, signers, phase, tok, signed, parsed, op>>

\* Parse(s, jwt, key) and ParseWithKeyFunc(s, jwt, keyFn)
DoParse(s, keyFn, now) ==
    /\ pkg = "jwt"
    /\ phase = "wire"
    /\ s = signed.s \/ now = 0
    /\ parsed' = [s |-> s, keyFn |-> keyFn, now |-> now,
                  res |-> ParseWithKeyFunc(s, jwt, keyFn, now)]
    /\ phase' = "done"
    /\ UNCHANGED <<pkg, signers, tok, jwt, tampered, signed, op>>

\* Parse(message, callback) and ParseWithKey(message, key) of package notary
DoNotaryParse(keyFn, now) ==
    /\ pkg = "notary"
    /\ phase = "wire"
    /\ parsed' = [s |-> NilSigner, keyFn |-> keyFn, now |-> now,
                  res |-> NotaryParse(signers, jwt, keyFn, now)]
    /\ phase' = "done"
    /\ UNCHANGED <<pkg, signers, tok, jwt, tampered, signed, op>>

\* Register(alg, signer). A call that panics is recovered from; the program
\* goes on to call Register only.
DoRegister(alg, signer) ==
    /\ pkg = "notary"
    /\ phase \in {"idle", "panicked"}
    /\ signers' = Register(signers, alg, signer).signers
    /\ op' = [fn |-> "Register", alg |-> alg, signer |-> signer, before |-> signers,
              panic |-> Register(signers, alg, signer).panic]
    /\ phase' = IF Register(signers, alg, signer).panic THEN "panicked" ELSE phase
    /\ UNCHANGED <<pkg, tok, jwt, tampered, signed, parsed>>

Next ==
    \/ \E t \in TokenLiterals : NewToken(t.Header, t.Claims)
    \/ \E alg \in {"HS256", "HS384", "none"}, c \in ClaimMaps : NotaryNewToken(alg, c)
    \/ \E w \in HeaderWrites : NotarySetHeader(w[1], w[2])
    \/ \E s \in Signers \cup {NilSigner} :
          \E key \in SignKeysOf(s), nonce \in 1..MaxNonce : DoSign(s, key, nonce)
    \/ \E s \in Signers \cup {NilSigner} :
          \E key \in SignKeysOf(s), nonce \in 1..MaxNonce : DoSignConfigured(s, key, nonce)
    \/ \E key \in {K1, RSAPublicKey} : DoNotarySign(key)
    \/ \E kind \in TamperKinds : Tamper(kind)
    \/ \E s \in Signers, keyFn \in KeyFns, now \in 0..MaxNow : DoParse(s, keyFn, now)
    \/ \E keyFn \in KeyFns, now \in 0..MaxNow : DoNotaryParse(keyFn, now)
    \/ \E alg \in RegisterNames, signer \in RegisterSigners : DoRegister(alg, signer)

Spec == Init /\ [][Next]_vars

(***************************************************************************)
(* What the properties speak of: the calls made so far, and the string on  *)
(* the wire read as JSON.                                                  *)
(***************************************************************************)
SignCalled == phase \in {"wire", "done"}
ParseCalled == parsed.res.steps # <<>>
Ran(step) == \E i \in 1..Len(parsed.res.steps) : parsed.res.steps[i] = step

\* the key callback that returns the key verifying what Sign signed with
RightKeyFn == ConstKeyFn(VerifyKeyOf(signed.key))

\* a string signed by an exported Signer is parsed with that Signer and the
\* right key
SameSignerCall ==
    /\ pkg = "jwt"
    /\ ParseCalled
    /\ signed.res.err = nil
    /\ signed.s \in ExportedSigners
    /\ parsed.s = signed.s
    /\ parsed.keyFn = RightKeyFn

\* seconds of a number kept in halves, truncated toward zero
TruncZero(h) == IF h >= 0 THEN h \div 2 ELSE -((-h) \div 2)

\* the claims of the caller: a numeric exp or nbf in seconds
IsNumber(c, k) == k \in DOMAIN c.m /\ c.m[k].t \in {"int64", "float64"}
Seconds(v) == IF v.t = "int64" THEN v.n ELSE TruncZero(v.n)
WithinValidity(c, now) ==
    /\ IsNumber(c, "exp") => now <= Seconds(c.m["exp"])
    /\ IsNumber(c, "nbf") => now >= Seconds(c.m["nbf"])

\* two claim maps are the same JSON object
SameJSON(a, b) == Marshal(a) = Marshal(b)

\* the segments of the string on the wire, and its claims segment as JSON
Segments == Split(jwt)
WireClaims == decode(Segments[2]).b
WireNumber(k) ==
    /\ WireClaims.kind = "json"
    /\ k \in DOMAIN WireClaims.obj
    /\ WireClaims.obj[k].j = "number"
WireExpired(now) == WireNumber("exp") /\ now > TruncZero(WireClaims.obj["exp"].n)
WireNotYet(now) == WireNumber("nbf") /\ now < TruncZero(WireClaims.obj["nbf"].n)

\* the header segment is a JSON object
HeaderIsObject ==
    /\ Len(Segments) = 3
    /\ decode(Segments[1]).err = nil
    /\ decode(Segments[1]).b.kind = "json"
    /\ decode(Segments[1]).b.form = "object"

\* the key the callback gave the last Parse
ParseKey == CallKeyFn(parsed.keyFn, parsed.res.seen).key

\* the third segment is a signature that Signer v makes of the first two
\* segments with a key that ParseKey verifies
AllKeys == SignKeys \cup VerifyKeys
SignWith(v, b, k, n) ==
    IF v.family = "HMACSigner" THEN NotarySignerSign(v, b, k) ELSE SignerSign(v, b, k, n)
GenuineSignature(v) ==
    /\ Len(Segments) = 3
    /\ \E k \in AllKeys, n \in 1..MaxNonce :
          /\ VerifyKeyOf(k) = ParseKey
          /\ SignWith(v, Join2(Segments), k, n).err = nil
          /\ Segments[3] # <<>>
          /\ Len(Segments[3]) = 1
          /\ Segments[3][1].c \in {"text", "padded"}
          /\ Segments[3][1].p = SignWith(v, Join2(Segments), k, n).b

\* the last Parse again, on the string j
ParseAgain(j) ==
    IF pkg = "notary" THEN NotaryParse(signers, j, parsed.keyFn, parsed.now)
    ELSE ParseWithKeyFunc(parsed.s, j, parsed.keyFn, parsed.now)
AlgNames == DOMAIN Exported \cup {"none"}

(***************************************************************************)
(* C1. Round trip.                                                         *)
(***************************************************************************)
\* C1 as claimed: for every claim map, every exported Signer and every valid
\* key, Parse of what Sign returned succeeds and returns the claims signed.
C1_RoundTripAlways ==
    (SameSignerCall /\ tampered = "none") =>
        /\ parsed.res.err = nil
        /\ SameJSON(parsed.res.t.Claims, tok.Claims)

\* C1, amended: for every claim map whose numeric exp is not before now and
\* whose numeric nbf is not after now, every exported Signer and every valid
\* key, Parse of what Sign returned succeeds and returns claims that are the
\* same JSON object as the claims signed.
C1_RoundTrip ==
    (SameSignerCall /\ tampered = "none" /\ WithinValidity(tok.Claims, parsed.now)) =>
        /\ parsed.res.err = nil
        /\ SameJSON(parsed.res.t.Claims, tok.Claims)

C1_Witness ==
    /\ SameSignerCall
    /\ tampered = "none"
    /\ WithinValidity(tok.Claims, parsed.now)
    /\ signed.s.family = "ECDSA"
    /\ HasType(tok.Claims, "exp", "float64")
    /\ tok.Claims.m["exp"].n = 3
    /\ parsed.now = 1
    /\ parsed.res.err = nil

(***************************************************************************)
(* C2. Algorithm binding.                                                  *)
(***************************************************************************)
\* C2: a string signed with an exported Signer A and parsed with another
\* exported Signer B is rejected with ErrHeaderAlg, and B's Verify is not called.
C2_AlgorithmBinding ==
    ( /\ pkg = "jwt"
      /\ ParseCalled
      /\ tampered = "none"
      /\ signed.res.err = nil
      /\ signed.s \in ExportedSigners
      /\ parsed.s \in ExportedSigners
      /\ parsed.s # signed.s ) =>
        /\ parsed.res.err = ErrHeaderAlg
        /\ parsed.res.verifier = NilSigner

(***************************************************************************)
(* C3. The Signer that verifies does not depend on the header.             *)
(***************************************************************************)
\* whether the Parse of the string with alg a in its header calls no Verify
\* or the Verify of Signer v
SameVerifier(a, v) == ParseAgain(WithAlg(jwt, a)).verifier \in {NilSigner, v}

\* C3 as claimed: in every Parse call, of either package, two strings that
\* differ in the alg of the header only are never verified by different Signers.
C3_VerifierIndependentOfHeader ==
    (ParseCalled /\ HeaderIsObject /\ parsed.res.verifier # NilSigner) =>
        \A a \in AlgNames : SameVerifier(a, parsed.res.verifier)

\* C3, amended: in every Parse and ParseWithKeyFunc call of package jwt the
\* Signer whose Verify runs is the one the caller passed, whatever alg the
\* header holds, and an alg other than that Signer's name yields ErrHeaderAlg.
C3_VerifierFixedByCaller ==
    (pkg = "jwt" /\ ParseCalled) =>
        /\ parsed.res.verifier \in {NilSigner, parsed.s}
        /\ HeaderIsObject =>
              \A a \in AlgNames :
                 /\ SameVerifier(a, parsed.s)
                 /\ (a # String(parsed.s) /\ Ran("alg")) =>
                        ParseAgain(WithAlg(jwt, a)).err = ErrHeaderAlg

C3_Witness ==
    /\ pkg = "jwt"
    /\ ParseCalled
    /\ tampered = "alg"
    /\ signed.s = RS256
    /\ parsed.s = HS256
    /\ parsed.keyFn = ConstKeyFn(RSAPublicKey)
    /\ parsed.res.verifier = HS256
    /\ parsed.res.err = ErrInvalidSignature

(***************************************************************************)
(* C4. Tamper detection.                                                   *)
(***************************************************************************)
\* C4: after a bit of the signature segment of a validly signed string flips,
\* Parse with the same Signer and the right key fails with ErrInvalidSignature.
C4_TamperDetection ==
    (SameSignerCall /\ tampered \in {"flip", "tail", "bad", "dot"}) =>
        parsed.res.err = ErrInvalidSignature

(***************************************************************************)
(* C5. Parse fails closed.                                                 *)
(***************************************************************************)
\* C5: every Parse returns a Token and no error after every step has run and
\* every check has passed, or no Token and an error.
C5_FailsClosed ==
    ParseCalled =>
        \/ /\ parsed.res.err = nil
           /\ parsed.res.t.ptr = "token"
           /\ parsed.res.steps = ParseSteps
           /\ HeaderIsObject
           /\ GenuineSignature(parsed.res.verifier)
           /\ ~WireExpired(parsed.now)
           /\ ~WireNotYet(parsed.now)
        \/ /\ parsed.res.err \notin {nil, Panic}
           /\ parsed.res.t = NilToken

C5_Witness ==
    /\ ParseCalled
    /\ parsed.res.err = ErrClaimNotBefore
    /\ parsed.res.seen # NilToken
    /\ parsed.res.t = NilToken

(***************************************************************************)
(* C6. The signature is verified before the claims are read.               *)
(***************************************************************************)
\* C6: the claims segment is decoded, and ErrClaimExpired or ErrClaimNotBefore
\* returned, only for a string whose signature verifies.
C6_VerifyBeforeClaims ==
    (ParseCalled /\ (Ran("decodeClaims")
                     \/ parsed.res.err \in {ErrClaimExpired, ErrClaimNotBefore})) =>
        GenuineSignature(parsed.res.verifier)

C6_Witness ==
    /\ SameSignerCall
    /\ tampered = "flip"
    /\ WireExpired(parsed.now)
    /\ parsed.res.err = ErrInvalidSignature
    /\ ~Ran("decodeClaims")

(***************************************************************************)
(* C7. Expiry.                                                             *)
(***************************************************************************)
\* C7: a Parse that reaches the exp check fails with ErrClaimExpired exactly
\* when the claims hold a numeric exp and now is after exp truncated toward
\* zero.
C7_Expiry ==
    (ParseCalled /\ Ran("exp")) =>
        (parsed.res.err = ErrClaimExpired <=> WireExpired(parsed.now))

C7_Witness ==
    /\ ParseCalled
    /\ Ran("exp")
    /\ WireNumber("exp")
    /\ WireClaims.obj["exp"].n = 2 * (parsed.now - 1)
    /\ parsed.res.err = ErrClaimExpired

(***************************************************************************)
(* C8. Not before.                                                         *)
(***************************************************************************)
\* C8: a Parse that reaches the nbf check fails with ErrClaimNotBefore exactly
\* when the claims hold a numeric nbf and now is before nbf truncated toward
\* zero.
C8_NotBefore ==
    (ParseCalled /\ Ran("nbf")) =>
        (parsed.res.err = ErrClaimNotBefore <=> WireNotYet(parsed.now))

C8_Witness ==
    /\ ParseCalled
    /\ Ran("nbf")
    /\ WireNumber("nbf")
    /\ WireClaims.obj["nbf"].n = 2 * (parsed.now + 1)
    /\ parsed.res.err = ErrClaimNotBefore

(***************************************************************************)
(* C9. Malformed structure.                                                *)
(***************************************************************************)
\* C9: Parse of a string that does not split into 3 segments, or whose first
\* segment is not base64url, fails with ErrMalformed.
C9_Malformed ==
    (ParseCalled /\ (Len(Segments) # 3 \/ decode(Segments[1]).err # nil)) =>
        parsed.res.err = ErrMalformed

SignedHeader == decode(Split(signed.res.jwt)[1]).b
\* a successful Sign
SignOK == SignCalled /\ signed.res.err = nil
\* the name of the Signer the last Sign used: the Signer's String(), and in
\* package notary the name it is registered under
SignerName == IF pkg = "notary" THEN signed.header.m["alg"].s ELSE String(signed.s)
\* the header keys Sign does not own
OtherKeys(m) == DOMAIN m.m \ {"typ", "alg"}

\* whether the Token's header and the encoded header have typ "JWT" and alg
\* the name of the Signer
HeaderSet ==
    /\ HasType(signed.res.t.Header, "typ", "string")
    /\ signed.res.t.Header.m["typ"].s = "JWT"
    /\ HasType(signed.res.t.Header, "alg", "string")
    /\ signed.res.t.Header.m["alg"].s = SignerName
    /\ SignedHeader = Marshal(signed.res.t.Header).b
    /\ SignedHeader.obj["typ"] = JString("JWT")
    /\ SignedHeader.obj["alg"] = JString(SignerName)
\* whether the other header keys are what they were before Sign
OthersKept ==
    /\ OtherKeys(signed.res.t.Header) = OtherKeys(signed.header)
    /\ \A k \in OtherKeys(signed.header) :
          /\ signed.res.t.Header.m[k] = signed.header.m[k]
          /\ SignedHeader.obj[k] = MarshalValue(signed.header.m[k])

\* C11 as claimed: after a successful Sign of either package, whatever the
\* header held before, the Token's header and the encoded header have typ "JWT"
\* and alg the Signer's name, and the other keys are unchanged.
C11_HeaderAlwaysSet == SignOK => (HeaderSet /\ OthersKept)

\* C11, amended: after a successful Sign of package jwt, whatever the header
\* held before, the Token's header and the encoded header have typ "JWT" and
\* alg the Signer's String(), and the other keys are unchanged; Sign of package
\* notary leaves the header as it was and encodes it as it is, so that typ is
\* "JWT" exactly when it was before.
C11_HeaderSetBySign ==
    SignOK =>
        /\ OthersKept
        /\ pkg \in {"jwt", "jwt.New"} => HeaderSet
        /\ pkg = "notary" =>
              /\ signed.res.t.Header = signed.header
              /\ SignedHeader = Marshal(signed.header).b
              /\ HeaderSet <=> (HasType(signed.header, "typ", "string")
                                /\ signed.header.m["typ"].s = "JWT")

C11_Witness ==
    /\ pkg = "jwt"
    /\ SignOK
    /\ signed.s = RS256
    /\ HasType(signed.header, "alg", "string")
    /\ signed.header.m["alg"].s = "none"
    /\ "kid" \in DOMAIN signed.header.m
    /\ signed.res.t.Header.m["alg"].s = "RS256"
    /\ SignedHeader.obj["kid"] = JString("k1")

(***************************************************************************)
(* C12. The names of the exported Signers.                                 *)
(***************************************************************************)
\* C12: every exported Signer reports its own identifier as its name, which
\* is the alg it writes into the header it signs, and no two exported Signers
\* report the same name.
C12_SignerNames ==
    (pkg = "jwt" /\ SignOK) =>
        \A n \in DOMAIN Exported :
            signed.s = Exported[n] =>
                /\ String(signed.s) = n
                /\ SignedHeader.obj["alg"] = JString(n)
                /\ \A o \in DOMAIN Exported \ {n} : String(Exported[o]) # String(signed.s)

(***************************************************************************)
(* C13. The registry of package notary.                                    *)
(***************************************************************************)
\* the registry with signer under the new name alg
Registered(reg, alg, signer) ==
    [a \in DOMAIN reg \cup {alg} |-> IF a = alg /\ a \notin DOMAIN reg THEN signer ELSE reg[a]]

\* C13: Register panics exactly when the signer is nil or the name is
\* registered already, and then leaves the registry as it was; otherwise it
\* adds the signer under the new name. After every Register call each name
\* registered before maps to the signer it mapped to, and the names init
\* registered map to the Signers init gave them.
C13_Register ==
    /\ \A a \in DOMAIN InitSigners : a \in DOMAIN signers /\ signers[a] = InitSigners[a]
    /\ op.fn = "Register" =>
          /\ op.panic <=> (op.signer = NilSigner \/ op.alg \in DOMAIN op.before)
          /\ op.panic => signers = op.before
          /\ ~op.panic => signers = Registered(op.before, op.alg, op.signer)
          /\ \A a \in DOMAIN op.before : a \in DOMAIN signers /\ signers[a] = op.before[a]

\* a second Register under a name registered by an earlier call panics and the
\* name keeps its first Signer
C13_Witness ==
    /\ op.fn = "Register"
    /\ op.panic
    /\ op.alg = "none"
    /\ op.signer = HMACSigner("SHA512")
    /\ "none" \in DOMAIN signers
    /\ signers["none"] = HMACSigner("SHA256")

(***************************************************************************)
(* C14. The errors of the signature step.                                  *)
(***************************************************************************)
\* the last step the last Parse ran
LastStep == parsed.res.steps[Len(parsed.res.steps)]

\* C14: a Parse that fails while it decodes the signature segment or calls
\* Verify, after the header checks have passed, returns ErrInvalidSignature.
C14_SignatureErrors ==
    (ParseCalled /\ LastStep \in {"decodeSig", "verify"} /\ parsed.res.err # nil) =>
        parsed.res.err = ErrInvalidSignature

(***************************************************************************)
(* The codec on bytes. A byte is a number in 0..255; a character of a      *)
(* base64url string is the index 0..63 of a letter of the alphabet,        *)
(* PadChar for '=', or a greater number for a byte outside the alphabet.   *)
(***************************************************************************)
MaxCodecLen == 4
PadChar == 64
ByteValues == {0, 77, 255}
ByteStrings == UNION {[1..n -> ByteValues] : n \in 0..MaxCodecLen}
Pads(n) == [i \in 1..n |-> PadChar]

\* base64.RawURLEncoding.EncodeToString: 3 bytes make 4 characters, a last
\* group of 1 or 2 bytes makes 2 or 3 with the unused low bits 0
RECURSIVE EncodeToString(_)
EncodeToString(b) ==
    IF Len(b) = 0 THEN <<>>
    ELSE IF Len(b) = 1 THEN <<b[1] \div 4, (b[1] % 4) * 16>>
    ELSE IF Len(b) = 2
    THEN <<b[1] \div 4, (b[1] % 4) * 16 + b[2] \div 16, (b[2] % 16) * 4>>
    ELSE <<b[1] \div 4, (b[1] % 4) * 16 + b[2] \div 16,
           (b[2] % 16) * 4 + b[3] \div 64, b[3] % 64>>
         \o EncodeToString(SubSeq(b, 4, Len(b)))

\* the bytes of a string of alphabet characters whose length is not 1 mod 4;
\* the unused low bits of the last character are dropped
RECURSIVE DecodeGroups(_)
DecodeGroups(s) ==
    IF Len(s) < 2 THEN <<>>
    ELSE IF Len(s) = 2 THEN <<s[1] * 4 + s[2] \div 16>>
    ELSE IF Len(s) = 3
    THEN <<s[1] * 4 + s[2] \div 16, (s[2] % 16) * 16 + s[3] \div 4>>
    ELSE <<s[1] * 4 + s[2] \div 16, (s[2] % 16) * 16 + s[3] \div 4,
           (s[3] % 4) * 64 + s[4]>>
         \o DecodeGroups(SubSeq(s, 5, Len(s)))

\* base64.RawURLEncoding.DecodeString: [b, err]; '=' is no character of the
\* unpadded encoding
DecodeString(s) ==
    IF (\E i \in 1..Len(s) : s[i] \notin 0..63) \/ Len(s) % 4 = 1
    THEN [b |-> <<>>, err |-> CorruptInputError]
    ELSE [b |-> DecodeGroups(s), err |-> nil]

\* base64.URLEncoding.Encode: the unpadded encoding followed by '=' up to a
\* multiple of 4 characters
URLEncode(b) ==
    LET r == EncodeToString(b) IN r \o Pads((4 - (Len(r) % 4)) % 4)

\* base64.URLEncoding.Decode: [b, err]; the input is whole groups of 4, the
\* last one ending in at most two '='
URLDecode(s) ==
    LET k == Cardinality({i \in 1..Len(s) : \A j \in i..Len(s) : s[j] = PadChar})
        data == SubSeq(s, 1, Len(s) - k)
    IN IF Len(s) % 4 # 0 \/ k > 2 \/ \E i \in 1..Len(data) : data[i] \notin 0..63
       THEN [b |-> <<>>, err |-> CorruptInputError]
       ELSE [b |-> DecodeGroups(data), err |-> nil]

\* bytes.TrimRight(s, "=")
RECURSIVE TrimRight(_)
TrimRight(s) ==
    IF s # <<>> /\ s[Len(s)] = PadChar THEN TrimRight(SubSeq(s, 1, Len(s) - 1)) ELSE s

\* a decode that adds no padding
NotaryPadNone(n) == 0

\* the number of '=' decode of package notary adds to n characters:
\* (-len(b)%4 + 4) % 4, where % truncates toward zero
NotaryPad(n) == LET r == -(n % 4) IN (r + 4) % 4

\* encode and decode of package notary, and of package jwt
NotaryEncodeBytes(b) == TrimRight(URLEncode(b))
NotaryDecodeBytes(s) == URLDecode(s \o Pads(NotaryPad(Len(s))))
EncodeBytes(p, b) == IF p = "notary" THEN NotaryEncodeBytes(b) ELSE EncodeToString(b)
DecodeBytes(p, s) == IF p = "notary" THEN NotaryDecodeBytes(s) ELSE DecodeString(s)

\* what is decoded after an encode: its result, its result with the padding
\* of the padded encoding, with an unused low bit of the last character set,
\* or followed by a byte outside the alphabet
DecodeKinds == {"same", "padded", "tail", "bad"}
DecodeInput(s, kind) ==
    IF kind = "padded" THEN s \o Pads((4 - (Len(s) % 4)) % 4)
    ELSE IF kind = "tail" THEN [s EXCEPT ![Len(s)] = s[Len(s)] + 1]
    ELSE IF kind = "bad" THEN s \o <<PadChar + 1>>
    ELSE s

\* s := encode(b)
CallEncode(b) ==
    /\ op.fn = "none"
    /\ op' = [fn |-> "encode", b |-> b, s |-> EncodeBytes(pkg, b)]
    /\ UNCHANGED <<pkg, signers, phase, tok, jwt, tampered, signed, parsed>>

\* decode(s) of a string made from the result of the last encode
CallDecode(kind) ==
    /\ op.fn = "encode"
    /\ kind = "tail" => Len(op.s) % 4 \in {2, 3}
    /\ op' = [fn |-> "decode", b |-> op.b, kind |-> kind,
              s |-> DecodeInput(op.s, kind),
              out |-> DecodeBytes(pkg, DecodeInput(op.s, kind))]
    /\ UNCHANGED <<pkg, signers, phase, tok, jwt, tampered, signed, parsed>>

\* the curves of the ECDSA keys x509 parses, by BitSize: P-224, P-256, P-384
\* and P-521
CurveBits == {224, 256, 384, 521}
ECPrivateKeys == {PEMKey("EC PRIVATE KEY", "ec", 1, bits) : bits \in CurveBits}
\* the keys a Signer is called with directly
CallKeys == {K1, RSAPrivateKey} \cup ECPrivateKeys
\* the data a Signer is called with directly: []byte("foo")
Foo == <<Text(Raw(1, 3), 0)>>

\* what is verified after a Sign: its result, its result with a byte changed,
\* without its last byte, or with one byte more
VerifyKinds == {"same", "flip", "short", "long"}
VerifyInput(sig, kind) ==
    IF kind = "flip" THEN [sig EXCEPT !.flip = 1]
    ELSE IF kind = "short" THEN [sig EXCEPT !.len = @ - 1]
    ELSE IF kind = "long" THEN [sig EXCEPT !.len = @ + 1]
    ELSE sig

\* sig, err := s.Sign([]byte("foo"), key) on a Signer of package jwt
CallSign(s, key, nonce) ==
    /\ pkg # "notary"
    /\ op.fn = "none"
    /\ op' = [fn |-> "Sign", s |-> s, key |-> key, b |-> Foo,
              out |-> SignerSign(s, Foo, key, nonce)]
    /\ UNCHANGED <<pkg, signers, phase, tok, jwt, tampered, signed, parsed>>

\* s.Verify([]byte("foo"), sig, key) on a signature made from the last Sign,
\* with the key that belongs to the signing key or another one
CallVerify(kind) ==
    /\ op.fn = "Sign"
    /\ op.out.err = nil
    /\ \E key \in {VerifyKeyOf(op.key)} \cup VerifyKeys :
          op' = [fn |-> "Verify", s |-> op.s, signkey |-> op.key, key |-> key,
                 b |-> op.b, kind |-> kind, sig |-> VerifyInput(op.out.b, kind),
                 err |-> SignerVerify(op.s, op.b, VerifyInput(op.out.b, kind), key)]
    /\ UNCHANGED <<pkg, signers, phase, tok, jwt, tampered, signed, parsed>>

\* a program that calls a function of a package and then its inverse; the
\* functions keep no state, so one pair of calls stands for every pair
CallsNext ==
    \/ \E b \in ByteStrings : CallEncode(b)
    \/ \E kind \in DecodeKinds : CallDecode(kind)
    \/ \E s \in ExportedSigners, key \in CallKeys, nonce \in 1..MaxNonce :
          CallSign(s, key, nonce)
    \/ \E kind \in VerifyKinds : CallVerify(kind)

Calls == Init /\ [][CallsNext]_vars

(***************************************************************************)
(* C15. The codec.                                                         *)
(***************************************************************************)
\* C15: for every byte string b, encode(b) holds alphabet characters only, no
\* '=' among them, and decode(encode(b)) is b without error, though no
\* padding is present.
C15_Codec ==
    /\ op.fn = "encode" => \A i \in 1..Len(op.s) : op.s[i] \in 0..63
    /\ (op.fn = "decode" /\ op.kind = "same") =>
          /\ op.s = EncodeBytes(pkg, op.b)
          /\ op.out = [b |-> op.b, err |-> nil]

\* the round trip of 4 bytes, whose padded encoding ends in "=="
C15_Witness ==
    /\ pkg = "notary"
    /\ op.fn = "decode"
    /\ op.kind = "same"
    /\ op.b = <<255, 77, 0, 255>>
    /\ Len(op.s) = 6
    /\ op.out.err = nil

(***************************************************************************)
(* C16. Sign with an HMAC Signer is deterministic.                         *)
(***************************************************************************)
\* the Token the last Sign was called on
TokenBefore == Token(signed.header, signed.claims)
\* the string of the golden vector: header {"alg":"HS256","typ":"JWT"}, claims
\* {"foo":"bar"} and the HMAC-SHA256 of the two under the key
GoldenInput ==
    encode(JSONObject([k \in {"alg", "typ"} |->
                          IF k = "alg" THEN JString("HS256") ELSE JString("JWT")]))
    \o sep \o encode(JSONObject([k \in {"foo"} |-> JString("bar")]))
Golden ==
    GoldenInput \o sep \o encode(Signature("HMAC", "SHA256", K1, GoldenInput, 32, 0))

CeilBytes(bits) == (bits + 7) \div 8

\* C17: for every curve getKeySize is ceil(BitSize/8), ECDSASigner.Sign
\* returns 2 * ceil(BitSize/8) bytes, and ECDSASigner.Verify with a key of the
\* curve returns ErrInvalidSignature for a signature of another length.
C17_FixedWidth ==
    /\ (op.fn = "Sign" /\ op.s.family = "ECDSA" /\ op.out.err = nil) =>
          /\ getKeySize(op.key.bits) = CeilBytes(op.key.bits)
          /\ BytesLen(op.out.b) = 2 * CeilBytes(op.key.bits)
    /\ ( /\ op.fn = "Verify"
         /\ op.s.family = "ECDSA"
         /\ ECDSAdecodePublicKey(op.key).err = nil
         /\ BytesLen(op.sig) # 2 * CeilBytes(op.key.bits) ) =>
          op.err = ErrInvalidSignature

(***************************************************************************)
(* C18. When the key callback is called.                                   *)
(***************************************************************************)
\* the header segment of the string on the wire, decoded and read as JSON
WireHeaderBytes == IF pkg = "notary" THEN NotaryDecode(Segments[1]) ELSE decode(Segments[1])
WireHeader == Unmarshal(WireHeaderBytes.b)
\* the checks of the string made before the callback: 3 segments, a header
\* that decodes to JSON, typ "JWT", and an alg that is the Signer's name or,
\* in package notary, a registered name
HeaderChecksPass ==
    /\ Len(Segments) = 3
    /\ WireHeaderBytes.err = nil
    /\ WireHeader.err = nil
    /\ HasType(WireHeader.m, "typ", "string")
    /\ WireHeader.m.m["typ"].s = "JWT"
    /\ HasType(WireHeader.m, "alg", "string")
    /\ IF pkg = "notary" THEN WireHeader.m.m["alg"].s \in DOMAIN signers
       ELSE WireHeader.m.m["alg"].s = String(parsed.s)
\* the callback was called: it was given a Token
CallbackCalled == parsed.res.seen # NilToken
\* the number of times the step ran
TimesRan(step) ==
    Cardinality({i \in 1..Len(parsed.res.steps) : parsed.res.steps[i] = step})

\* C18: in every Parse the key callback is called at most once, exactly when
\* the split, the header decoding, the typ check and the alg check have passed,
\* and before Verify; it is given a Token with the decoded header and no
\* claims; when it fails, Parse returns its error and Verify is not called.
C18_KeyCallback ==
    ParseCalled =>
        /\ TimesRan("keyFn") <= 1
        /\ CallbackCalled <=> Ran("keyFn")
        /\ CallbackCalled <=> HeaderChecksPass
        /\ CallbackCalled =>
              /\ parsed.res.seen.Header = WireHeader.m
              /\ parsed.res.seen.Claims = NilMap
        /\ (CallbackCalled /\ CallKeyFn(parsed.keyFn, parsed.res.seen).err # nil) =>
              /\ parsed.res.err = CallKeyFn(parsed.keyFn, parsed.res.seen).err
              /\ LastStep = "keyFn"
              /\ parsed.res.verifier = NilSigner
        /\ parsed.res.verifier # NilSigner =>
              /\ CallbackCalled
              /\ CallKeyFn(parsed.keyFn, parsed.res.seen).err = nil
              /\ Ran("verify")

\* a callback that looks for a kid the header does not hold: Parse returns
\* its error and calls no Verify
C18_Witness ==
    /\ pkg = "jwt"
    /\ ParseCalled
    /\ parsed.keyFn = KidKeyFn("k1", K1)
    /\ CallbackCalled
    /\ "kid" \notin DOMAIN parsed.res.seen.Header.m
    /\ parsed.res.err = ErrKeyFn
    /\ parsed.res.verifier = NilSigner

====
